---- MODULE Spec2Model ----
(***************************************************************************)
(* Model of backtest_btc_15m.py: the per-market loop of run(), the trigger *)
(* scan, resolved_outcome and the settlement arithmetic.                   *)
(*                                                                         *)
(* Probabilities, prices and PnL are fixed-point integers, one unit being  *)
(* 0.00001, so round(x, 4) is a rounding to a multiple of 10 units.        *)
(* Python's None and JSON null are the string "None".  An optional value   *)
(* (the trigger, the printed total) is a sequence of length 0 or 1.        *)
(***************************************************************************)
EXTENDS Integers, Sequences, FiniteSets, TLC

VARIABLES pc, mktsEmpty, nClosed, i, m, hists, trigger, winner, won, pnl,
          trades, skipped, fetches, log, summary, exc

vars == <<pc, mktsEmpty, nClosed, i, m, hists, trigger, winner, won, pnl,
          trades, skipped, fetches, log, summary, exc>>

----------------------------------------------------------------------------
(* Program constants *)

ONE == 100000
THRESHOLD == 97000
FEE == 2000
CONFIDENT == 90000
WINDOW == 900
SIDES == 2

(* Bounds of the model *)

MaxTicks == 2
MaxList == 3
MaxMarkets == 2

None == "None"
Junk == -1

----------------------------------------------------------------------------
(* Input domains *)

SeqsUpTo(S, n) == UNION {[1..k -> S] : k \in 0..n}

Times == {100, 150}
Probs == {96999, 97000, 97996, 99000}
Ticks == [t : Times, p : Probs]
TickSeqs == SeqsUpTo(Ticks, MaxTicks)

Labels == {"Up", "Down"}
JsonLabels == Labels \cup {None}
SettlePrices == {10000, 90000, 95000, Junk}

(* A JSON-encoded field of a market record: missing, not decodable, or     *)
(* the decoded list.  "unread" marks a field the iteration never reached.  *)
Absent == [kind |-> "absent", val |-> <<>>]
Unparsable == [kind |-> "bad", val |-> <<>>]
Unread == [kind |-> "unread", val |-> <<>>]
Parsed(s) == [kind |-> "ok", val |-> s]

NoDate == [kind |-> "absent", ts |-> 0]
BadDate == [kind |-> "bad", ts |-> 0]
UnreadDate == [kind |-> "unread", ts |-> 0]
IsoDate(n) == [kind |-> "ok", ts |-> n]

UnreadMarket ==
    [clobTokenIds |-> Unread, outcomes |-> Unread, endDate |-> UnreadDate,
     outcomePrices |-> Unread]

----------------------------------------------------------------------------
(* Numeric helpers *)

(* The quotient a / b (b > 0) rounded to the nearest integer, ties to the  *)
(* even one, as round() and the format specs round.                        *)
RoundDiv(a, b) ==
    LET q == a \div b
        r == a % b
    IN  IF 2 * r < b THEN q
        ELSE IF 2 * r > b THEN q + 1
        ELSE IF q % 2 = 0 THEN q ELSE q + 1

(* round(x, 4) *)
Round4(x) == RoundDiv(x, 10) * 10

RECURSIVE SumOf(_, _)
SumOf(f, k) == IF k = 0 THEN 0 ELSE f[k] + SumOf(f, k - 1)

----------------------------------------------------------------------------
(* iso_to_ts *)

DateParses(d) == d.kind = "ok"
iso_to_ts(d) == d.ts

----------------------------------------------------------------------------
(* The trigger scan of run() *)

QualifiesStrict(p) == p > THRESHOLD
(* if p["p"] >= THRESHOLD *)
Qualifies(p) == p >= THRESHOLD

EarlierLater(t, trig) == trig = <<>> \/ t > trig[1].time
EarlierOrSame(t, trig) == trig = <<>> \/ t <= trig[1].time
(* if trigger is None or p["t"] < trigger["time"] *)
Earlier(t, trig) == trig = <<>> \/ t < trig[1].time

MakeTrigger(outcomes, side_idx, tick) ==
    <<[side |-> outcomes[side_idx + 1], side_idx |-> side_idx,
       price |-> tick.p, time |-> tick.t]>>

(* for p in hist: ... break *)
RECURSIVE ScanTicks(_, _, _, _, _)
ScanTicks(hist, k, side_idx, outcomes, trig) ==
    IF k > Len(hist) THEN trig
    ELSE IF Qualifies(hist[k].p)
         THEN IF Earlier(hist[k].t, trig)
              THEN MakeTrigger(outcomes, side_idx, hist[k])
              ELSE trig
         ELSE ScanTicks(hist, k + 1, side_idx, outcomes, trig)

(* for side_idx, hist in enumerate(hists) *)
RECURSIVE ScanSides(_, _, _, _)
ScanSides(hs, s, outcomes, trig) ==
    IF s > Len(hs) THEN trig
    ELSE ScanSides(hs, s + 1, outcomes,
                   ScanTicks(hs[s], 1, s - 1, outcomes, trig))

DetectTrigger(hs, outcomes) == ScanSides(hs, 1, outcomes, <<>>)

(* if not trigger *)
HasTrigger(trig) == trig # <<>>

----------------------------------------------------------------------------
(* resolved_outcome *)

(* json.loads(m.get(key, "[]")) *)
GetOrEmpty(field) == IF field.kind = "absent" THEN Parsed(<<>>) ELSE field

(* max(range(len(prices)), key=...): the first index of a largest price *)
RECURSIVE ArgMax(_, _, _)
ArgMax(prices, k, best) ==
    IF k > Len(prices) THEN best
    ELSE ArgMax(prices, k + 1, IF prices[k] > prices[best] THEN k ELSE best)

ConfidentOrEqual(p) == p >= CONFIDENT
(* if float(prices[i]) > 0.9 *)
Confident(p) == p > CONFIDENT

resolved_outcome(mk) ==
    LET outs == GetOrEmpty(mk.outcomes)
        prices == GetOrEmpty(mk.outcomePrices)
    IN  IF outs.kind # "ok" \/ prices.kind # "ok" THEN None
        ELSE IF prices.val = <<>> \/ outs.val = <<>> THEN None
        ELSE IF \E k \in DOMAIN prices.val : prices.val[k] = Junk THEN None
        ELSE LET ix == ArgMax(prices.val, 2, 1)
             IN  IF ~Confident(prices.val[ix]) THEN None
                 ELSE IF ix > Len(outs.val) THEN None
                 ELSE outs.val[ix]

----------------------------------------------------------------------------
(* Settlement and the trade record *)

(* won = trigger["side"] == winner *)
Won(trig, w) == trig[1].side = w

(* pnl = (1 - price - FEE) if won else -(price + FEE) *)
Pnl(trig, isWon) ==
    IF isWon THEN ONE - trig[1].price - FEE ELSE -(trig[1].price + FEE)

TradeRecord(slug, trig, w, end_ts) ==
    [slug |-> slug, side |-> trig[1].side, price |-> Round4(trig[1].price),
     winner |-> w, won |-> Won(trig, w),
     pnl |-> Round4(Pnl(trig, Won(trig, w))),
     tte_secs |-> end_ts - trig[1].time]

----------------------------------------------------------------------------
(* State shared by the three specifications: the locals of run() before   *)
(* the loop has bound them.                                                *)

Unbound ==
    /\ mktsEmpty = FALSE
    /\ nClosed = 0
    /\ i = 0
    /\ winner = None
    /\ won = FALSE
    /\ pnl = 0
    /\ trades = <<>>
    /\ skipped = 0
    /\ fetches = 0
    /\ log = <<>>
    /\ summary = <<>>
    /\ exc = "none"

----------------------------------------------------------------------------
(* SpecTrigger: the trigger scan (lines 128-139) on any two tick series.   *)

LabelPairs == {<<"Up", "Down">>, <<"Down", "Up">>}

InitTrigger ==
    /\ Unbound
    /\ pc = "scan"
    /\ trigger = <<>>
    /\ \E outs \in LabelPairs :
          m = [UnreadMarket EXCEPT !.outcomes = Parsed(outs)]
    /\ hists \in TickSeqs \X TickSeqs

Scan ==
    /\ pc = "scan"
    /\ trigger' = DetectTrigger(hists, m.outcomes.val)
    /\ pc' = "scanned"
    /\ UNCHANGED <<mktsEmpty, nClosed, i, m, hists, winner, won, pnl, trades,
                   skipped, fetches, log, summary, exc>>

NextTrigger == Scan

SpecTrigger == InitTrigger /\ [][NextTrigger]_vars

----------------------------------------------------------------------------
(* What the scan is expected to return, stated without the loop.           *)

QualIdx(hist) == {k \in DOMAIN hist : hist[k].p >= THRESHOLD}
FirstIdx(hist) == CHOOSE k \in QualIdx(hist) : \A j \in QualIdx(hist) : k <= j
FirstTick(s) == hists[s][FirstIdx(hists[s])]
SideHit(s) == QualIdx(hists[s]) # {}
TriggerOf(s) ==
    <<[side |-> m.outcomes.val[s], side_idx |-> s - 1,
       price |-> FirstTick(s).p, time |-> FirstTick(s).t]>>

(* C1: a Trigger Event exists if and only if some tick on either side has *)
(* probability >= THRESHOLD; a tick exactly at THRESHOLD qualifies, and    *)
(* two series with no such tick (empty ones included) give no trigger.     *)
C1_InclusiveThreshold ==
    pc = "scanned" =>
        (trigger # <<>> <=> (SideHit(1) \/ SideHit(2)))

C1_Witness ==
    /\ pc = "scanned"
    /\ trigger # <<>>
    /\ trigger[1].price = THRESHOLD
    /\ hists[2] = <<>>
    /\ \A k \in DOMAIN hists[1] : hists[1][k].p <= THRESHOLD

(* C2: when both sides have a first qualifying tick and side A's is        *)
(* strictly earlier, the trigger is side A with that tick's price and      *)
(* time, for A at index 0 and for A at index 1; a later qualifying tick of *)
(* a side never stands in for its first one.                               *)
C2_EarlierSideWins ==
    (pc = "scanned" /\ SideHit(1) /\ SideHit(2)) =>
        \A a \in 1..2 :
            FirstTick(a).t < FirstTick(3 - a).t => trigger = TriggerOf(a)

C2_Witness ==
    /\ pc = "scanned"
    /\ SideHit(1) /\ SideHit(2)
    /\ FirstTick(2).t < FirstTick(1).t
    /\ trigger = TriggerOf(2)
    /\ Cardinality(QualIdx(hists[2])) = 2
    /\ hists[2][1].p # hists[2][2].p
    /\ Cardinality(QualIdx(hists[1])) = 2
    /\ hists[1][2].t < hists[1][1].t

(* C10: the trigger is a function of the two series, the labels and the    *)
(* threshold: none when no side qualifies, the only qualifying side's      *)
(* first qualifying tick when one does, and with both the index-1 side     *)
(* only when its first qualifying tick is strictly earlier, so that equal  *)
(* timestamps give the side at index 0.                                    *)
C10_TieGoesToIndex0 ==
    pc = "scanned" =>
        trigger = IF ~SideHit(1) /\ ~SideHit(2) THEN <<>>
                  ELSE IF ~SideHit(2) THEN TriggerOf(1)
                  ELSE IF ~SideHit(1) THEN TriggerOf(2)
                  ELSE IF FirstTick(2).t < FirstTick(1).t THEN TriggerOf(2)
                  ELSE TriggerOf(1)

C10_Witness ==
    /\ pc = "scanned"
    /\ SideHit(1) /\ SideHit(2)
    /\ FirstTick(1).t = FirstTick(2).t
    /\ FirstTick(1).p # FirstTick(2).p
    /\ trigger = TriggerOf(1)

----------------------------------------------------------------------------
(* SpecSettle: resolved_outcome (lines 68-78) on any outcomes and          *)
(* outcomePrices fields, and the settlement of run() (lines 145-150) on    *)
(* any trigger of a market with two outcome labels.                        *)

OutcomeFields ==
    {Absent, Unparsable} \cup {Parsed(s) : s \in SeqsUpTo(JsonLabels, MaxList)}
PriceFields ==
    {Absent, Unparsable} \cup {Parsed(s) : s \in SeqsUpTo(SettlePrices, MaxList)}

(* The triggers the scan can return for the labels outs *)
SettleTriggers(outs) ==
    {MakeTrigger(outs, s, k) : s \in 0..(SIDES - 1),
                               k \in {x \in Ticks : x.p >= THRESHOLD}}

InitSettle ==
    /\ Unbound
    /\ hists = <<>>
    /\ \E o \in OutcomeFields, q \in PriceFields :
          m = [UnreadMarket EXCEPT !.outcomes = o, !.outcomePrices = q]
    /\ \/ pc = "resolve" /\ trigger = <<>>
       \/ /\ pc = "settle"
          /\ m.outcomes.kind = "ok"
          /\ Len(m.outcomes.val) = SIDES
          /\ trigger \in SettleTriggers(m.outcomes.val)

Resolve ==
    /\ pc = "resolve"
    /\ winner' = resolved_outcome(m)
    /\ pc' = "resolved"
    /\ UNCHANGED <<mktsEmpty, nClosed, i, m, hists, trigger, won, pnl, trades,
                   skipped, fetches, log, summary, exc>>

Settle ==
    /\ pc = "settle"
    /\ winner' = resolved_outcome(m)
    /\ won' = Won(trigger, winner')
    /\ pnl' = Pnl(trigger, won')
    /\ pc' = "settled"
    /\ UNCHANGED <<mktsEmpty, nClosed, i, m, hists, trigger, trades, skipped,
                   fetches, log, summary, exc>>

NextSettle == Resolve \/ Settle

SpecSettle == InitSettle /\ [][NextSettle]_vars

----------------------------------------------------------------------------
(* C3: the trade is a win if and only if the resolution is defined and     *)
(* equals the triggered side's label, an undefined resolution being a loss *)
(* for every pair of labels; the PnL is 1 - price - FEE on a win and       *)
(* -(price + FEE) on a loss.                                               *)
C3_UndefinedResolutionLoses ==
    pc = "settled" =>
        /\ won <=> (winner # None /\ trigger[1].side = winner)
        /\ pnl = IF won THEN ONE - trigger[1].price - FEE
                 ELSE -(trigger[1].price + FEE)

----------------------------------------------------------------------------
Resolved == pc \in {"resolved", "settled"}
Outs == m.outcomes.val
OutPrices == m.outcomePrices.val
NoResolutionInput ==
    \/ m.outcomes.kind # "ok"
    \/ m.outcomePrices.kind # "ok"
    \/ Outs = <<>>
    \/ OutPrices = <<>>
    \/ \E k \in DOMAIN OutPrices : OutPrices[k] = Junk
MaxPrice == CHOOSE x \in {OutPrices[k] : k \in DOMAIN OutPrices} :
                \A k \in DOMAIN OutPrices : OutPrices[k] <= x
MaxAt == {k \in DOMAIN OutPrices : OutPrices[k] = MaxPrice}
FirstMaxAt == CHOOSE k \in MaxAt : \A j \in MaxAt : k <= j

(* C4 as claimed: None when a sequence is absent, empty or unparsable or   *)
(* the largest settlement price is <= 0.9; otherwise the outcome label at  *)
(* the index of the largest settlement price.                              *)
C4_LabelAtMaximum ==
    Resolved =>
        IF NoResolutionInput \/ MaxPrice <= CONFIDENT THEN winner = None
        ELSE \E k \in MaxAt : k \in DOMAIN Outs /\ winner = Outs[k]

(* C4 as amended: as claimed, the index being the first one of the largest *)
(* settlement price, and the result being None when the label sequence has *)
(* no element at that index.                                               *)
C4_LabelAtFirstMaximumIfAny ==
    Resolved =>
        IF NoResolutionInput \/ MaxPrice <= CONFIDENT THEN winner = None
        ELSE IF FirstMaxAt \in DOMAIN Outs THEN winner = Outs[FirstMaxAt]
        ELSE winner = None

C4_Witness ==
    /\ Resolved
    /\ ~NoResolutionInput
    /\ MaxPrice > CONFIDENT
    /\ Cardinality(MaxAt) = 2
    /\ FirstMaxAt = Len(Outs)
    /\ winner = Outs[FirstMaxAt]
    /\ winner # None

----------------------------------------------------------------------------
(* Spec: run() from the return of fetch_btc15m_markets to the end of the   *)
(* summary.  One step runs the loop body on one market of the list closed, *)
(* up to its continue, its end or the exception that leaves run(); the     *)
(* fields                                                                  *)
(* of the market and the answers of the price-history endpoint are drawn   *)
(* when the iteration reads them.  A market's slug is its position in      *)
(* closed.                                                                 *)

TokenFields ==
    {Absent, Unparsable} \cup {Parsed([k \in 1..n |-> k]) : n \in 0..MaxList}
RunOutcomeFields ==
    {Absent, Unparsable} \cup {Parsed(s) : s \in SeqsUpTo(Labels, MaxList)}
EndTimes == {900}
RunTicks ==
    {[t |-> 100, p |-> 96999], [t |-> 100, p |-> 97000],
     [t |-> 150, p |-> 97996], [t |-> 150, p |-> 99000]}
RunSeries == {<<>>} \cup {<<k>> : k \in RunTicks}
RunPriceFields ==
    {Unparsable, Parsed(<<98000, 2000>>), Parsed(<<2000, 98000>>),
     Parsed(<<50000, 50000>>)}

(* prices(token, start, end): raise_for_status() raises, or the history *)
HttpError == [ok |-> FALSE, history |-> <<>>]
NotCalled == [ok |-> FALSE, history |-> <<"not called">>]
Responses == {HttpError} \cup {[ok |-> TRUE, history |-> h] : h \in RunSeries}

Init ==
    /\ pc = "start"
    /\ mktsEmpty \in BOOLEAN
    /\ nClosed \in 0..MaxMarkets
    /\ mktsEmpty => nClosed = 0
    /\ i = 0
    /\ m = UnreadMarket
    /\ hists = <<>>
    /\ trigger = <<>>
    /\ winner = None
    /\ won = FALSE
    /\ pnl = 0
    /\ trades = <<>>
    /\ skipped = 0
    /\ fetches = 0
    /\ log = <<>>
    /\ summary = <<>>
    /\ exc = "none"

(* if not mkts: ... return *)
ExitNoMarkets ==
    /\ pc = "start"
    /\ mktsEmpty
    /\ pc' = "returned"
    /\ UNCHANGED <<mktsEmpty, nClosed, i, m, hists, trigger, winner, won, pnl,
                   trades, skipped, fetches, log, summary, exc>>

(* closed = [...]; trades, skipped = [], 0 *)
Start ==
    /\ pc = "start"
    /\ ~mktsEmpty
    /\ pc' = "loop"
    /\ UNCHANGED <<mktsEmpty, nClosed, i, m, hists, trigger, winner, won, pnl,
                   trades, skipped, fetches, log, summary, exc>>

InLoop == pc = "loop" /\ i < nClosed

SkipUncounted(n) == n
(* skipped += 1 *)
CountSkip(n) == n + 1

WellFormedTokensOnly(tok, out) == Len(tok.val) = SIDES
(* the negation of: len(token_ids) != 2 or len(outcomes) != 2 *)
WellFormed(tok, out) == Len(tok.val) = SIDES /\ Len(out.val) = SIDES

(* trades.append(...) *)
AppendTrade(trs, rec) == Append(trs, rec)

(* except Exception: skipped += 1; continue *)
SkipBadParse ==
    /\ InLoop
    /\ \E tok \in TokenFields, out \in RunOutcomeFields \cup {Unread} :
          /\ out = Unread <=> tok.kind # "ok"
          /\ tok.kind = "ok" => out.kind # "ok"
          /\ m' = [UnreadMarket EXCEPT !.clobTokenIds = tok, !.outcomes = out]
    /\ skipped' = CountSkip(skipped)
    /\ log' = Append(log, "skip")
    /\ i' = i + 1
    /\ pc' = "continue"
    /\ UNCHANGED <<mktsEmpty, nClosed, hists, trigger, winner, won, pnl,
                   trades, fetches, summary, exc>>

(* if len(token_ids) != 2 or len(outcomes) != 2: skipped += 1; continue *)
SkipWrongCount ==
    /\ InLoop
    /\ \E tok \in TokenFields, out \in RunOutcomeFields :
          /\ tok.kind = "ok" /\ out.kind = "ok"
          /\ ~WellFormed(tok, out)
          /\ m' = [UnreadMarket EXCEPT !.clobTokenIds = tok, !.outcomes = out]
    /\ skipped' = CountSkip(skipped)
    /\ log' = Append(log, "skip")
    /\ i' = i + 1
    /\ pc' = "continue"
    /\ UNCHANGED <<mktsEmpty, nClosed, hists, trigger, winner, won, pnl,
                   trades, fetches, summary, exc>>

(* end_ts = iso_to_ts(m["endDate"]) raises KeyError or ValueError, which  *)
(* nothing in run() catches                                                *)
AbortBadEndDate ==
    /\ InLoop
    /\ \E tok \in TokenFields, out \in RunOutcomeFields, d \in {NoDate, BadDate} :
          /\ tok.kind = "ok" /\ out.kind = "ok"
          /\ WellFormed(tok, out)
          /\ m' = [UnreadMarket EXCEPT !.clobTokenIds = tok, !.outcomes = out,
                                       !.endDate = d]
          /\ exc' = IF d = NoDate THEN "KeyError" ELSE "ValueError"
    /\ pc' = "aborted"
    /\ UNCHANGED <<mktsEmpty, nClosed, i, hists, trigger, winner, won, pnl,
                   trades, skipped, fetches, log, summary>>

(* h = prices(tid, start_ts, end_ts) raises for the first or the second   *)
(* token, which nothing in run() catches                                   *)
AbortFetchFail ==
    /\ InLoop
    /\ \E tok \in TokenFields, out \in RunOutcomeFields, e \in EndTimes,
          r1 \in Responses, r2 \in Responses \cup {NotCalled} :
          /\ tok.kind = "ok" /\ out.kind = "ok"
          /\ WellFormed(tok, out)
          /\ DateParses(IsoDate(e))
          /\ r2 = NotCalled <=> ~r1.ok
          /\ ~r2.ok
          /\ m' = [UnreadMarket EXCEPT !.clobTokenIds = tok, !.outcomes = out,
                                       !.endDate = IsoDate(e)]
          /\ hists' = IF r1.ok THEN <<r1.history>> ELSE <<>>
          /\ fetches' = IF r1.ok THEN fetches + 2 ELSE fetches + 1
    /\ pc' = "aborted"
    /\ exc' = "HTTPError"
    /\ UNCHANGED <<mktsEmpty, nClosed, i, trigger, winner, won, pnl, trades,
                   skipped, log, summary>>

(* if not trigger: print("no trigger"); continue *)
NoTriggerMarket ==
    /\ InLoop
    /\ \E tok \in TokenFields, out \in RunOutcomeFields, e \in EndTimes,
          r1 \in Responses, r2 \in Responses :
          /\ tok.kind = "ok" /\ out.kind = "ok"
          /\ WellFormed(tok, out)
          /\ DateParses(IsoDate(e))
          /\ r1.ok /\ r2.ok
          /\ m' = [UnreadMarket EXCEPT !.clobTokenIds = tok, !.outcomes = out,
                                       !.endDate = IsoDate(e)]
          /\ hists' = <<r1.history, r2.history>>
          /\ trigger' = DetectTrigger(hists', out.val)
          /\ ~HasTrigger(trigger')
    /\ fetches' = fetches + 2
    /\ log' = Append(log, "no trigger")
    /\ i' = i + 1
    /\ pc' = "continue"
    /\ UNCHANGED <<mktsEmpty, nClosed, winner, won, pnl, trades, skipped,
                   summary, exc>>

(* winner = resolved_outcome(m); won; pnl; trades.append({...}) *)
TradeMarket ==
    /\ InLoop
    /\ \E tok \in TokenFields, out \in RunOutcomeFields, e \in EndTimes,
          r1 \in Responses, r2 \in Responses, q \in RunPriceFields :
          /\ tok.kind = "ok" /\ out.kind = "ok"
          /\ WellFormed(tok, out)
          /\ DateParses(IsoDate(e))
          /\ r1.ok /\ r2.ok
          /\ m' = [clobTokenIds |-> tok, outcomes |-> out,
                   endDate |-> IsoDate(e), outcomePrices |-> q]
          /\ hists' = <<r1.history, r2.history>>
          /\ trigger' = DetectTrigger(hists', out.val)
          /\ HasTrigger(trigger')
          /\ winner' = resolved_outcome(m')
          /\ won' = Won(trigger', winner')
          /\ pnl' = Pnl(trigger', won')
          /\ trades' = AppendTrade(trades,
                 TradeRecord(i + 1, trigger', winner', iso_to_ts(m'.endDate)))
    /\ fetches' = fetches + 2
    /\ log' = Append(log, "trade")
    /\ i' = i + 1
    /\ pc' = "continue"
    /\ UNCHANGED <<mktsEmpty, nClosed, skipped, summary, exc>>

(* The end of the loop body: the for statement takes the next market.  No  *)
(* later statement reads a local of the finished iteration before         *)
(* assigning it, so the model drops them here.                             *)
Continue ==
    /\ pc = "continue"
    /\ pc' = "loop"
    /\ m' = UnreadMarket
    /\ hists' = <<>>
    /\ trigger' = <<>>
    /\ winner' = None
    /\ won' = FALSE
    /\ pnl' = 0
    /\ UNCHANGED <<mktsEmpty, nClosed, i, trades, skipped, fetches, log,
                   summary, exc>>

----------------------------------------------------------------------------
(* The summary block *)

IsWinOrFlat(t) == t.pnl >= 0
(* wins = [t for t in trades if t["pnl"] > 0] *)
IsWin(t) == t.pnl > 0

Unguarded(n) == n
(* max(1, n) *)
Denominator(n) == IF n > 1 THEN n ELSE 1

(* if trades: *)
PrintsTotals(trs) == trs # <<>>

Report(trs, scanned, skips) ==
    LET n == Len(trs)
        wins == Cardinality({k \in 1..n : IsWin(trs[k])})
        total == SumOf([k \in 1..n |-> trs[k].pnl], n)
        ttes == SumOf([k \in 1..n |-> trs[k].tte_secs], n)
    IN  [scanned |-> scanned, skipped |-> skips, trades |-> n, wins |-> wins,
         winRate |-> RoundDiv(wins * 1000, Denominator(n)),
         avgPnl |-> RoundDiv(total, 10 * Denominator(n)),
         totalPnl |-> IF PrintsTotals(trs) THEN <<RoundDiv(total, 10)>> ELSE <<>>,
         avgTte |-> IF PrintsTotals(trs) THEN <<RoundDiv(ttes, n)>> ELSE <<>>]

Summary ==
    /\ pc = "loop"
    /\ i = nClosed
    /\ IF Denominator(Len(trades)) = 0
       THEN /\ pc' = "aborted"
            /\ exc' = "ZeroDivisionError"
            /\ UNCHANGED summary
       ELSE /\ pc' = "done"
            /\ summary' = <<Report(trades, nClosed, skipped)>>
            /\ UNCHANGED exc
    /\ UNCHANGED <<mktsEmpty, nClosed, i, m, hists, trigger, winner, won, pnl,
                   trades, skipped, fetches, log>>

Next ==
    \/ ExitNoMarkets
    \/ Start
    \/ SkipBadParse
    \/ SkipWrongCount
    \/ AbortBadEndDate
    \/ AbortFetchFail
    \/ NoTriggerMarket
    \/ TradeMarket
    \/ Continue
    \/ Summary

Spec == Init /\ [][Next]_vars

----------------------------------------------------------------------------
(* Claims about the loop and the summary of run() *)

(* A step that runs the loop body on the market m' *)
MarketStep == pc = "loop" /\ i < nClosed /\ pc' \in {"continue", "aborted"}

CountLog(kind) == Cardinality({k \in DOMAIN log : log[k] = kind})

BadSides(mk) ==
    \/ mk.clobTokenIds.kind # "ok"
    \/ mk.outcomes.kind # "ok"
    \/ Len(mk.clobTokenIds.val) # 2
    \/ Len(mk.outcomes.val) # 2

(* C5: a market whose clobTokenIds or outcomes does not parse, or whose    *)
(* token list or label list has not exactly two elements, is skipped: the  *)
(* skip counter grows by exactly one, no price history is fetched, no      *)
(* trade is appended and the loop goes on to the next market.              *)
C5_MalformedMarketSkipped ==
    [][(MarketStep /\ BadSides(m')) =>
          /\ skipped' = skipped + 1
          /\ fetches' = fetches
          /\ trades' = trades
          /\ log' = Append(log, "skip")
          /\ i' = i + 1
          /\ pc' = "continue"]_vars

C5_Witness ==
    /\ pc = "continue"
    /\ i = 2
    /\ log = <<"trade", "skip">>
    /\ m.clobTokenIds.kind = "ok" /\ Len(m.clobTokenIds.val) = 2
    /\ m.outcomes.kind = "ok" /\ Len(m.outcomes.val) = 3
    /\ skipped = 1
    /\ fetches = 2
    /\ Len(trades) = 1

(* C6: a market whose endDate is missing or no ISO-8601 timestamp, or      *)
(* whose price-history fetch fails, is only skipped: it is counted in the  *)
(* skip counter and the run is not aborted.                                *)
C6_FailedMarketOnlySkipped ==
    LET badDate == m.endDate.kind \in {"absent", "bad"}
        fetchFailed == m.endDate.kind = "ok" /\ Len(hists) < SIDES
    IN  (badDate \/ fetchFailed) =>
            /\ pc = "continue"
            /\ exc = "none"
            /\ log[i] = "skip"
            /\ skipped >= 1

(* The counters, the log and the trade list in every state *)
C7_Counts ==
    /\ Len(log) = i
    /\ Len(trades) + skipped <= i
    /\ skipped = CountLog("skip")
    /\ Len(trades) = CountLog("trade")
    /\ i = CountLog("skip") + CountLog("no trigger") + CountLog("trade")
    /\ \A a \in DOMAIN trades :
          /\ trades[a].slug \in DOMAIN log
          /\ log[trades[a].slug] = "trade"
          /\ \A b \in DOMAIN trades : a < b => trades[a].slug < trades[b].slug
    /\ pc = "done" =>
          /\ i = nClosed
          /\ summary[1].scanned = nClosed
          /\ summary[1].skipped = skipped
          /\ summary[1].trades = Len(trades)
          /\ nClosed = skipped + CountLog("no trigger") + Len(trades)

(* What one step may do to the counters, the log and the trade list *)
C7_Step ==
    /\ skipped' >= skipped
    /\ Len(trades') >= Len(trades)
    /\ SubSeq(trades', 1, Len(trades)) = trades
    /\ (MarketStep /\ pc' = "continue") =>
          LET event == /\ Len(hists') = SIDES
                       /\ \E s \in 1..SIDES : \E k \in DOMAIN hists'[s] :
                             hists'[s][k].p >= THRESHOLD
              traded == Len(trades') = Len(trades) + 1 /\ trades'[Len(trades')].slug = i'
              skip == skipped' = skipped + 1
          IN  /\ traded <=> event
              /\ ~traded => trades' = trades
              /\ ~skip => skipped' = skipped
              /\ skip => ~event
              /\ log'[i'] = IF skip THEN "skip"
                            ELSE IF traded THEN "trade" ELSE "no trigger"

(* C7: every market is skipped, without trigger or traded, and only one of *)
(* these; a trade is appended exactly for a market with a Trigger Event;   *)
(* trades + skipped never exceeds the markets processed; at the summary    *)
(* scanned = skipped + no-trigger + trades; the trade list and the skip    *)
(* counter only grow; the trades are in the order of their markets.        *)
C7_OneOutcomePerMarket == [](C7_Counts) /\ [][C7_Step]_vars

C7_Witness ==
    /\ pc = "done"
    /\ log = <<"skip", "trade">>
    /\ skipped = 1
    /\ Len(trades) = 1
    /\ trades[1].slug = 2

(* C8: with an empty trade list the summary completes without a division   *)
(* by zero and reports 0 trades, 0 wins, a win rate of 0 and an average    *)
(* PnL of 0; the total PnL and the average time to expiry are computed     *)
(* only for a trade list that is not empty.                                *)
C8_EmptySummary ==
    /\ exc # "ZeroDivisionError"
    /\ (pc = "done" /\ trades = <<>>) =>
          /\ summary[1].trades = 0
          /\ summary[1].wins = 0
          /\ summary[1].winRate = 0
          /\ summary[1].avgPnl = 0
          /\ summary[1].totalPnl = <<>>
          /\ summary[1].avgTte = <<>>
    /\ (pc = "done" /\ trades # <<>>) =>
          /\ summary[1].totalPnl # <<>>
          /\ summary[1].avgTte # <<>>

C8_Witness ==
    /\ pc = "done"
    /\ trades = <<>>
    /\ log = <<"skip", "no trigger">>
    /\ summary[1].scanned = 2
    /\ summary[1].winRate = 0

(* C9 as claimed: the win count of the summary is the number of trade      *)
(* records whose win flag is true.                                         *)
C9_WinsAreWonTrades ==
    pc = "done" =>
        summary[1].wins =
            Cardinality({k \in DOMAIN trades : trades[k].won})

(* C9 as amended: the win count of the summary is the number of trade      *)
(* records whose win flag is true and whose recorded price is below        *)
(* 1 - FEE; a won trade at a recorded price of 1 - FEE or more has a PnL   *)
(* of 0 or less and is not counted.                                        *)
C9_WinsAreWonTradesBelowOneMinusFee ==
    pc = "done" =>
        /\ summary[1].wins =
              Cardinality({k \in DOMAIN trades :
                              trades[k].won /\ trades[k].price < ONE - FEE})
        /\ \A k \in DOMAIN trades :
              (trades[k].won /\ trades[k].price >= ONE - FEE) => trades[k].pnl <= 0

C9_Witness ==
    /\ pc = "done"
    /\ Len(trades) = 2
    /\ trades[1].won /\ trades[1].price = THRESHOLD
    /\ trades[2].won /\ trades[2].price = ONE - FEE
    /\ summary[1].wins = 1

====
